---- MODULE Spec2Model ----
(***************************************************************************)
(* droll: dice notation -> tokens (lexer.rs) -> parse tree (parser.rs)     *)
(* -> integer (interpreter.rs).  Strings are sequences of one-character    *)
(* strings; Option/Result values are records.                              *)
(***************************************************************************)
EXTENDS Integers, Sequences, FiniteSets, TLC

VARIABLES input, pc, lexed, parsed, prng, evald

vars == <<input, pc, lexed, parsed, prng, evald>>

(* ------------------------------ bounds --------------------------------- *)

\* longest input enumerated exhaustively over Alphabet
MaxLen == 4

\* number of values the modelled random source cycles through
PrngPeriod == 2

(* ---------------------------- characters ------------------------------- *)

NonZeroDigits == {"1", "2", "3", "4", "5", "6", "7", "8", "9"}

Digits == NonZeroDigits \cup {"0"}

DigitVal(c) ==
    CASE c = "0" -> 0 [] c = "1" -> 1 [] c = "2" -> 2 [] c = "3" -> 3
      [] c = "4" -> 4 [] c = "5" -> 5 [] c = "6" -> 6 [] c = "7" -> 7
      [] c = "8" -> 8 [] c = "9" -> 9

\* Peekable::peek: the character at the cursor, if any (pos is 1-based)
Peek(s, pos) ==
    IF pos <= Len(s) THEN [some |-> TRUE, ch |-> s[pos]]
    ELSE [some |-> FALSE, ch |-> ""]

(* ------------------------------ tokens --------------------------------- *)

Integer(n) == [type |-> "Integer", val |-> n]
Plus == [type |-> "Plus", val |-> 0]
Minus == [type |-> "Minus", val |-> 0]
Asterisk == [type |-> "Asterisk", val |-> 0]
Slash == [type |-> "Slash", val |-> 0]
Die == [type |-> "Die", val |-> 0]
FudgeDie == [type |-> "FudgeDie", val |-> 0]
PercentileDie == [type |-> "PercentileDie", val |-> 0]

NoToken == [type |-> "None", val |-> 0]

\* Result<Token, String> of the token functions, with the cursor they leave
TokOk(t, pos) == [ok |-> TRUE, tok |-> t, pos |-> pos, msg |-> "", arg |-> ""]
TokErr(m, a, pos) == [ok |-> FALSE, tok |-> NoToken, pos |-> pos, msg |-> m, arg |-> a]

UnexpectedCharacter == "Unexpected character: "
UnexpectedEndOfStream == "Unexpected end of input stream"
FailedNumber == "Failed to parse number token: "

(* ------------------------------- lexer --------------------------------- *)

\* u64::MAX = 18446744073709551615, as its decimal digits
U64MaxDigits ==
    <<"1","8","4","4","6","7","4","4","0","7","3","7","0","9","5","5","1","6","1","5">>

RECURSIVE DigitsGreater(_, _, _)
\* a > b for two digit strings of the same length, compared from index i
DigitsGreater(a, b, i) ==
    IF i > Len(a) THEN FALSE
    ELSE IF DigitVal(a[i]) # DigitVal(b[i]) THEN DigitVal(a[i]) > DigitVal(b[i])
    ELSE DigitsGreater(a, b, i + 1)

\* str::parse::<u64> fails with PosOverflow when the digits exceed u64::MAX
OverflowsU64(digs) ==
    \/ Len(digs) > Len(U64MaxDigits)
    \/ Len(digs) = Len(U64MaxDigits) /\ DigitsGreater(digs, U64MaxDigits, 1)

RECURSIVE DecimalValue(_, _, _)
\* base-10 value of digs[i..], accumulated left to right
DecimalValue(digs, i, acc) ==
    IF i > Len(digs) THEN acc
    ELSE DecimalValue(digs, i + 1, acc * 10 + DigitVal(digs[i]))

RECURSIVE DigitRunEnd(_, _)
\* iter::from_fn(|| chars.next_if(is_ascii_digit)): first index after the run
DigitRunEnd(s, pos) ==
    IF pos <= Len(s) /\ s[pos] \in Digits THEN DigitRunEnd(s, pos + 1) ELSE pos

parse_integer_token(s, pos) ==
    LET end  == DigitRunEnd(s, pos)
        digs == SubSeq(s, pos, end - 1)
    IN  IF digs = <<>> THEN TokErr(FailedNumber, "empty", end)
        ELSE IF OverflowsU64(digs) THEN TokErr(FailedNumber, "overflow", end)
        ELSE TokOk(Integer(DecimalValue(digs, 1, 0)), end)

\* the closure `parse` of parse_die_token, applied to the selected character
die_char(c, pos) ==
    IF c = "F" THEN TokOk(FudgeDie, pos)
    ELSE IF c = "%" THEN TokOk(PercentileDie, pos)
    ELSE IF c \in NonZeroDigits THEN TokOk(Die, pos)
    ELSE TokErr(UnexpectedCharacter, c, pos)

parse_die_token(s, pos) ==
    LET d     == Peek(s, pos)
        \* chars.next_if_eq(&'d')
        tookD == d.some /\ d.ch = "d"
        p1    == IF tookD THEN pos + 1 ELSE pos
        f     == Peek(s, p1)
        \* chars.next_if(|&c| c == 'F' || c == '%'), evaluated eagerly
        tookF == f.some /\ f.ch \in {"F", "%"}
        p2    == IF tookF THEN p1 + 1 ELSE p1
        \* .and(..): Some only when both were taken
        both  == tookD /\ tookF
        \* .or(chars.peek().copied()): the not yet consumed next character
        nxt   == Peek(s, p2)
    IN  IF both THEN die_char(f.ch, p2)
        ELSE IF nxt.some THEN die_char(nxt.ch, p2)
        ELSE TokErr(UnexpectedEndOfStream, "", p2)

\* parse_single_token with a default arm that accepts the character
parse_single_token_lenient(char, s, pos) ==
    IF char = "-" THEN TokOk(Minus, pos + 1)
    ELSE IF char = "*" THEN TokOk(Asterisk, pos + 1)
    ELSE IF char = "/" THEN TokOk(Slash, pos + 1)
    ELSE TokOk(Plus, pos + 1)

\* the cursor moves (chars.next()) only on Ok
parse_single_token(char, s, pos) ==
    IF char = "+" THEN TokOk(Plus, pos + 1)
    ELSE IF char = "-" THEN TokOk(Minus, pos + 1)
    ELSE IF char = "*" THEN TokOk(Asterisk, pos + 1)
    ELSE IF char = "/" THEN TokOk(Slash, pos + 1)
    ELSE TokErr(UnexpectedCharacter, char, pos)

\* lexer::parse: dispatch on the peeked character
lex_parse(char, s, pos) ==
    IF char \in NonZeroDigits THEN parse_integer_token(s, pos)
    ELSE IF char = "d" THEN parse_die_token(s, pos)
    ELSE parse_single_token(char, s, pos)

LexOk(ts) == [ok |-> TRUE, tokens |-> ts, msg |-> "", arg |-> ""]
LexErr(m, a) == [ok |-> FALSE, tokens |-> <<>>, msg |-> m, arg |-> a]

RECURSIVE lex_loop(_, _, _)
\* the while-let loop of lex: one token per iteration, `?` aborts the scan
lex_loop(s, pos, tokens) ==
    LET p == Peek(s, pos)
    IN  IF ~p.some THEN LexOk(tokens)
        ELSE LET r == lex_parse(p.ch, s, pos)
             IN  IF r.ok THEN lex_loop(s, r.pos, Append(tokens, r.tok))
                 ELSE LexErr(r.msg, r.arg)

lex(s) == lex_loop(s, 1, <<>>)

(* ------------------------------- ast ----------------------------------- *)

OpDie == "Die"
OpPlus == "Plus"
OpMinus == "Minus"

Operator == {OpDie, OpPlus, OpMinus}

NumericLiteral(n) == [kind |-> "NumericLiteral", val |-> n]

numeric_literal(n) == NumericLiteral(n)

unary_expr(rhs, op) == [kind |-> "Unary", rhs |-> rhs, op |-> op]

binary_expr(lhs, rhs, op) == [kind |-> "Binary", lhs |-> lhs, rhs |-> rhs, op |-> op]

binary_roll_expr(lhs, rhs) == binary_expr(numeric_literal(lhs), numeric_literal(rhs), OpDie)

unary_roll_expr(rhs) == unary_expr(numeric_literal(rhs), OpDie)

NoExpr == [kind |-> "None"]

(* ------------------------------ parser --------------------------------- *)

MAX_PRECEDENCE == 2

\* token_precedence with the levels of + - and d exchanged
token_precedence_swapped(token) ==
    IF token.type \in {"Plus", "Minus"} THEN 1
    ELSE IF token.type = "Die" THEN 0
    ELSE MAX_PRECEDENCE

\* token_precedence with the Die token above every level parse_expr tests
token_precedence_no_die(token) ==
    IF token.type \in {"Plus", "Minus"} THEN 0
    ELSE IF token.type = "Die" THEN MAX_PRECEDENCE + 1
    ELSE MAX_PRECEDENCE

token_precedence(token) ==
    IF token.type \in {"Plus", "Minus"} THEN 0
    ELSE IF token.type = "Die" THEN 1
    ELSE MAX_PRECEDENCE

UnknownOperator == "Unknown operator token "

\* Result<Operator, String>
token_to_operator(token) ==
    IF token.type = "Plus" THEN [ok |-> TRUE, op |-> OpPlus, msg |-> "", arg |-> ""]
    ELSE IF token.type = "Minus" THEN [ok |-> TRUE, op |-> OpMinus, msg |-> "", arg |-> ""]
    ELSE IF token.type = "Die" THEN [ok |-> TRUE, op |-> OpDie, msg |-> "", arg |-> ""]
    ELSE [ok |-> FALSE, op |-> "", msg |-> UnknownOperator, arg |-> token.type]

\* Result<Expr, String> of the parse functions, with the token cursor they leave
ExprOk(e, pos) == [ok |-> TRUE, tree |-> e, pos |-> pos, msg |-> "", arg |-> ""]
ExprErr(m, a, pos) == [ok |-> FALSE, tree |-> NoExpr, pos |-> pos, msg |-> m, arg |-> a]

DieAfterDie == "Syntax error, found 'd' token directly after 'd' token"
EndAfterDie == "Unexpected end of input, expecting token after 'd' token"
EndAfterMinus == "Unexpected end of input, expecting token after '-' token"
EndAfterPlus == "Unexpected end of input, expecting token after '+' token"
UnexpectedEnd == "Unexpected end of input"

\* the sign arms returning the error of the fall-through arm
end_after_sign_plain(op) == UnexpectedEnd

\* the error of a '-' (parser.rs:113) or '+' (parser.rs:120) with nothing after it
end_after_sign(op) ==
    IF op = OpMinus THEN EndAfterMinus ELSE EndAfterPlus

\* Peekable<Iter<Token>>::peek
PeekTok(tokens, pos) ==
    IF pos <= Len(tokens) THEN [some |-> TRUE, tok |-> tokens[pos]]
    ELSE [some |-> FALSE, tok |-> NoToken]

RECURSIVE parse_expr(_, _, _)
RECURSIVE parse_primary(_, _)

parse_expr(tokens, pos, current_precedence) ==
    IF current_precedence > MAX_PRECEDENCE THEN parse_primary(tokens, pos)
    ELSE
      LET left == parse_expr(tokens, pos, current_precedence + 1)
      IN  IF ~left.ok THEN left
          ELSE
            LET next_token == PeekTok(tokens, left.pos)
            IN  IF next_token.some
                   /\ token_precedence(next_token.tok) = current_precedence
                THEN \* tokens.next(), then the arguments of binary_expr in order
                  LET right == parse_expr(tokens, left.pos + 1, current_precedence)
                      op    == token_to_operator(next_token.tok)
                  IN  IF ~right.ok THEN right
                      ELSE IF ~op.ok THEN ExprErr(op.msg, op.arg, right.pos)
                      ELSE ExprOk(binary_expr(left.tree, right.tree, op.op), right.pos)
                ELSE left

\* the '-' and '+' arms of parse_primary
sign_primary(tokens, pos, op) ==
    IF ~PeekTok(tokens, pos + 1).some
    THEN ExprErr(end_after_sign(op), "", pos + 1)
    ELSE LET r == parse_primary(tokens, pos + 1)
         IN  IF ~r.ok THEN r ELSE ExprOk(unary_expr(r.tree, op), r.pos)

\* the match arm parser.rs:91 names the integer token Number
parse_primary(tokens, pos) ==
    LET t == PeekTok(tokens, pos)
    IN  IF t.some /\ t.tok.type = "Integer"
        THEN ExprOk(NumericLiteral(t.tok.val), pos + 1)
        ELSE IF t.some /\ t.tok.type = "Die"
        THEN LET n == PeekTok(tokens, pos + 1)
             IN  IF n.some /\ n.tok.type = "Die" THEN ExprErr(DieAfterDie, "", pos + 1)
                 ELSE IF ~n.some THEN ExprErr(EndAfterDie, "", pos + 1)
                 ELSE LET r == parse_expr(tokens, pos + 1, 0)
                      IN  IF ~r.ok THEN r ELSE ExprOk(unary_expr(r.tree, OpDie), r.pos)
        ELSE IF t.some /\ t.tok.type = "Minus" THEN sign_primary(tokens, pos, OpMinus)
        ELSE IF t.some /\ t.tok.type = "Plus" THEN sign_primary(tokens, pos, OpPlus)
        ELSE ExprErr(UnexpectedEnd, "", pos)

\* parser::parse: lex(input)? then parse_expr(.., 0)
parse(s) ==
    LET l == lex(s)
    IN  IF ~l.ok THEN ExprErr(l.msg, l.arg, 1) ELSE parse_expr(l.tokens, 1, 0)

(* ---------------------------- interpreter ------------------------------ *)

\* values the random source returns, as fractions <<numerator, denominator>>
PrngVals == {<<0, 1>>, <<1, 4>>, <<1, 2>>, <<1, 1>>}

\* f64::round: to the nearest integer, halves away from zero (den > 0)
Round(num, den) ==
    IF num >= 0 THEN (2 * num + den) \div (2 * den)
    ELSE -((2 * (-num) + den) \div (2 * den))

MaxOf(a, b) == IF a >= b THEN a ELSE b

\* the k-th value (k from 0) of a source that repeats the sequence src
Draw(src, k) == src[(k % Len(src)) + 1]

\* calc_roll calling prng once for each die rolled
calc_roll_per_die(src, k, amount, sides) ==
    LET r == Draw(src, k)
    IN  [val  |-> amount * MaxOf(Round(r[1] * sides, r[2]), 1),
         next |-> k + MaxOf(amount, 1)]

\* calc_roll without the .max(1.0)
calc_roll_unclamped(src, k, amount, sides) ==
    LET r == Draw(src, k)
    IN  [val  |-> amount * Round(r[1] * sides, r[2]),
         next |-> k + 1]

\* calc_roll: one call of prng, the k-th; next is the index of the following call
calc_roll(src, k, amount, sides) ==
    LET r == Draw(src, k)
    IN  [val  |-> amount * MaxOf(Round(r[1] * sides, r[2]), 1),
         next |-> k + 1]

\* the node at `path` called prng for the calls k .. next-1
Calls(path, k, next) == [i \in 1..(next - k) |-> path]

RECURSIVE eval_preorder(_, _, _, _)
\* eval with prng called for a Die node before its operands are evaluated
eval_preorder(src, ast, k, path) ==
    IF ast.kind = "NumericLiteral" THEN [val |-> ast.val, next |-> k, log |-> <<>>]
    ELSE IF ast.kind = "Binary" THEN
      IF ast.op = OpDie THEN
        LET l == eval_preorder(src, ast.lhs, k + 1, Append(path, "lhs"))
            r == eval_preorder(src, ast.rhs, l.next, Append(path, "rhs"))
        IN  [val |-> calc_roll(src, k, l.val, r.val).val, next |-> r.next,
             log |-> <<path>> \o l.log \o r.log]
      ELSE
        LET l == eval_preorder(src, ast.lhs, k, Append(path, "lhs"))
            r == eval_preorder(src, ast.rhs, l.next, Append(path, "rhs"))
        IN  [val |-> IF ast.op = OpPlus THEN l.val + r.val ELSE l.val - r.val,
             next |-> r.next, log |-> l.log \o r.log]
    ELSE
      IF ast.op = OpDie THEN
        LET r == eval_preorder(src, ast.rhs, k + 1, Append(path, "rhs"))
        IN  [val |-> calc_roll(src, k, 1, r.val).val, next |-> r.next,
             log |-> <<path>> \o r.log]
      ELSE
        LET r == eval_preorder(src, ast.rhs, k, Append(path, "rhs"))
        IN  [val |-> IF ast.op = OpPlus THEN r.val ELSE -r.val,
             next |-> r.next, log |-> r.log]

RECURSIVE eval(_, _, _, _)
\* eval(prng)(ast): val is the result, next the index of the next prng call,
\* log the nodes (as paths from the root) in the order of their prng calls
eval(src, ast, k, path) ==
    IF ast.kind = "NumericLiteral" THEN [val |-> ast.val, next |-> k, log |-> <<>>]
    ELSE IF ast.kind = "Binary" THEN
      LET l == eval(src, ast.lhs, k, Append(path, "lhs"))
          r == eval(src, ast.rhs, l.next, Append(path, "rhs"))
      IN  IF ast.op = OpDie THEN
            LET c == calc_roll(src, r.next, l.val, r.val)
            IN  [val |-> c.val, next |-> c.next,
                 log |-> l.log \o r.log \o Calls(path, r.next, c.next)]
          ELSE IF ast.op = OpPlus THEN
            [val |-> l.val + r.val, next |-> r.next, log |-> l.log \o r.log]
          ELSE
            [val |-> l.val - r.val, next |-> r.next, log |-> l.log \o r.log]
    ELSE
      LET r == eval(src, ast.rhs, k, Append(path, "rhs"))
      IN  IF ast.op = OpDie THEN
            LET c == calc_roll(src, r.next, 1, r.val)
            IN  [val |-> c.val, next |-> c.next,
                 log |-> r.log \o Calls(path, r.next, c.next)]
          ELSE IF ast.op = OpPlus THEN r
          ELSE [val |-> -r.val, next |-> r.next, log |-> r.log]

(* ------------------------------ inputs --------------------------------- *)

\* characters of the exhaustively enumerated inputs
Alphabet == {"0", "1", "2", "+", "-", "d", "*", "F", "x"}

Enumerated == UNION {[1..n -> Alphabet] : n \in 0..MaxLen}

\* the inputs of test_lex_valid, test_parse and the doc examples
Fixtures ==
    {<<"d", "F">>,
     <<"d", "%">>,
     <<"d", "2", "0">>,
     <<"d", "6", "*", "1", "0">>,
     <<"d", "6", "/", "1", "0">>,
     <<"2", "d", "2", "0">>,
     <<"d", "2", "0", "-", "1", "0">>,
     <<"2", "d", "2", "0", "+", "1", "d", "8">>,
     <<"+", "-", "1", "2", "3", "4", "5", "6", "7", "8", "9", "0">>,
     <<"1", "d", "2", "0">>,
     <<"-", "1", "d", "2", "0">>,
     <<"-", "d", "2", "0">>,
     <<"3", "d", "6", "+", "1", "0">>,
     <<"3", "-", "d", "6">>,
     <<"-", "2", "-", "d", "8">>,
     <<"+", "1", "-", "-", "d", "3">>,
     <<"1", "d", "2", "0", "+", "2", "d", "3">>,
     <<"1", "d", "2", "0", "+", "1", "0">>}

\* inputs of the specification's examples that the tests do not have
SpecExamples ==
    {<<"+", "-", "1", "2", "3", "4", "5", "6", "7", "8", "9", "0", "d">>,
     <<"d", "3", "-", "2">>,
     <<"1", "-", "2", "-", "3">>,
     <<"2", "d", "3", "d", "4">>,
     <<"9", "9", "9", "9", "9", "9", "9", "9", "9", "9", "9", "9", "9", "9", "9", "9", "9", "9", "9", "9">>}

\* integer literals the longer forms are built from
Lits == {<<"1">>, <<"2">>, <<"2", "0">>}

Signs == {<<"+">>, <<"-">>}

Infix == {<<"+">>, <<"-">>, <<"d">>}

LetterD == <<"d">>

\* a op b op c,  AdB+CdD,  dAdB+CdD,  sA--dB
Forms ==
    {a \o o1 \o b \o o2 \o c : a \in {<<"1">>}, b \in Lits, c \in Lits, o1 \in Infix, o2 \in Infix}
    \cup {a \o LetterD \o b \o <<"+">> \o c \o LetterD \o e : a \in Lits, b \in Lits, c \in {<<"1">>}, e \in Lits}
    \cup {LetterD \o a \o LetterD \o b \o <<"+">> \o c \o LetterD \o e :
             a \in {<<"1">>}, b \in Lits, c \in {<<"1">>}, e \in Lits}
    \cup {s \o a \o <<"-", "-", "d">> \o b : s \in Signs, a \in Lits, b \in Lits}

Inputs == Enumerated \cup Fixtures \cup SpecExamples \cup Forms

\* the random sources: each repeats a sequence of PrngPeriod values
Sources == [1..PrngPeriod -> PrngVals]

(* --------------------------- state machine ----------------------------- *)

NoLex == LexErr("", "")
NoParse == ExprErr("", "", 0)
NoEval == [val |-> 0, next |-> 0, log |-> <<>>]

Init ==
    /\ input \in Inputs
    /\ pc = "start"
    /\ lexed = NoLex
    /\ parsed = NoParse
    /\ prng = <<>>
    /\ evald = NoEval

\* parse: lexer::lex(input)?  -- an Err is returned as the Err of parse
Lex ==
    /\ pc = "start"
    /\ lexed' = lex(input)
    /\ pc' = IF lexed'.ok THEN "lexed" ELSE "failed"
    /\ parsed' = IF lexed'.ok THEN parsed ELSE ExprErr(lexed'.msg, lexed'.arg, 0)
    /\ UNCHANGED <<input, prng, evald>>

\* parse: parse_expr(&mut tokens.iter().peekable(), 0)
Parse ==
    /\ pc = "lexed"
    /\ parsed' = parse_expr(lexed.tokens, 1, 0)
    /\ pc' = IF parsed'.ok THEN "parsed" ELSE "failed"
    /\ UNCHANGED <<input, lexed, prng, evald>>

\* main / roll: eval(prng)(parse_tree) on Ok(parse_tree)
Eval ==
    /\ pc = "parsed"
    /\ \E src \in Sources :
         /\ prng' = src
         /\ evald' = eval(src, parsed.tree, 0, <<>>)
    /\ pc' = "done"
    /\ UNCHANGED <<input, lexed, parsed>>

Next == Lex \/ Parse \/ Eval

Spec == Init /\ [][Next]_vars

\* lex has returned
LexReturned == pc # "start"

\* parse has returned (with the lexer's error when pc = "failed" and ~lexed.ok)
ParseReturned == pc \in {"parsed", "done", "failed"}

TypeOK ==
    /\ pc \in {"start", "lexed", "parsed", "done", "failed"}
    /\ lexed.ok \in BOOLEAN
    /\ parsed.ok \in BOOLEAN
    /\ pc \in {"parsed", "done"} => parsed.ok
    /\ pc = "failed" => ~parsed.ok

(* ------------------ helpers of the properties below -------------------- *)

IsInt(t) == t.type = "Integer"

Lit(t) == NumericLiteral(t.val)

\* the operator an operator token stands for
OpOf(t) == IF t.type = "Plus" THEN OpPlus ELSE IF t.type = "Minus" THEN OpMinus ELSE OpDie

\* the types of the lexed tokens, in order
Types == [i \in 1..Len(lexed.tokens) |-> lexed.tokens[i].type]

Tok(i) == lexed.tokens[i]

\* the parser returned this tree
ParsedTo(e) == parsed.ok /\ parsed.tree = e

CountChar(s, c) == Cardinality({i \in 1..Len(s) : s[i] = c})

CountType(ts, ty) == Cardinality({i \in 1..Len(ts) : ts[i].type = ty})

(* ------------------------------- C1 ------------------------------------ *)

\* C1 (as stated): a op1 b op2 c, with op1 and op2 both among + - or both d,
\* parses to Binary(Binary(a, b, op1), c, op2).
C1_LeftAssociative ==
    (/\ ParseReturned /\ lexed.ok
     /\ Len(lexed.tokens) = 5
     /\ IsInt(Tok(1)) /\ IsInt(Tok(3)) /\ IsInt(Tok(5))
     /\ \/ {Tok(2).type, Tok(4).type} \subseteq {"Plus", "Minus"}
        \/ {Tok(2).type, Tok(4).type} = {"Die"})
    => ParsedTo(binary_expr(binary_expr(Lit(Tok(1)), Lit(Tok(3)), OpOf(Tok(2))),
                            Lit(Tok(5)), OpOf(Tok(4))))

(* ------------------------------- C2 ------------------------------------ *)

\* C2 (as stated): dX op Y, op an infix + - or d, parses to
\* Binary(Unary(X, Die), Y, op): the operand of the prefix d is X alone.
C2_PrefixDieBindsTightest ==
    (/\ ParseReturned /\ lexed.ok
     /\ Len(lexed.tokens) = 4
     /\ Tok(1).type = "Die" /\ IsInt(Tok(2)) /\ IsInt(Tok(4))
     /\ Tok(3).type \in {"Plus", "Minus", "Die"})
    => ParsedTo(binary_expr(unary_expr(Lit(Tok(2)), OpDie), Lit(Tok(4)), OpOf(Tok(3))))

(* ------------------------------- C3 ------------------------------------ *)

\* "+-1234567890d"
PlusMinusNumberDie == <<"+", "-", "1", "2", "3", "4", "5", "6", "7", "8", "9", "0", "d">>

\* C3 (as stated): every d becomes one Die token whatever follows it, so an
\* input of 1-9, +, - and d lexes with as many Die tokens as it has d's, and
\* "+-1234567890d" lexes to [Plus, Minus, Integer(1234567890), Die].
C3_EveryDIsOneDieToken ==
    LexReturned =>
        /\ (\A i \in 1..Len(input) : input[i] \in NonZeroDigits \cup {"+", "-", "d"})
             => /\ lexed.ok
                /\ CountType(lexed.tokens, "Die") = CountChar(input, "d")
        /\ input = PlusMinusNumberDie
             => /\ lexed.ok
                /\ lexed.tokens = <<Plus, Minus, Integer(1234567890), Die>>

(* ------------------------------- C4 ------------------------------------ *)

\* the characters the claim takes the lexer to accept
ClaimedChars == Digits \cup {"+", "-", "d"}

\* the characters some token of the lexer is made of
LexerChars == Digits \cup {"+", "-", "*", "/", "d", "F", "%"}

Outside(set) == {i \in 1..Len(input) : input[i] \notin set}

FirstOutside(set) == CHOOSE i \in Outside(set) : \A j \in Outside(set) : i <= j

\* the only character outside the lexer's is the last one of the input
FirstOutsideIsLast == Outside(LexerChars) = {Len(input)}

\* lex failed with "Unexpected character: c"
LexNames(c) == ~lexed.ok /\ lexed.tokens = <<>> /\ lexed.msg = UnexpectedCharacter /\ lexed.arg = c

\* C4 (as stated): an input with a character outside {0-9, +, -, d} is refused
\* with an error naming the first such character; Ok only within {0-9, +, -, d}.
C4_Original ==
    LexReturned =>
        /\ Outside(ClaimedChars) # {} => LexNames(input[FirstOutside(ClaimedChars)])
        /\ lexed.ok => Outside(ClaimedChars) = {}

\* C4 (amended): an input with a character outside {0-9, +, -, *, /, d, F, %} is
\* refused with no tokens.  The error names the first such character when the
\* input before it lexes, or ends in a d still waiting for its next character;
\* when the scan fails before it, the error is the one lex gives for that
\* part of the input.  lex is Ok only within {0-9, +, -, *, /, d, F, %}.
C4_UnexpectedCharacter ==
    LexReturned =>
        /\ lexed.ok => Outside(LexerChars) = {}
        /\ Outside(LexerChars) # {} =>
             LET i      == FirstOutside(LexerChars)
                 before == lex(SubSeq(input, 1, i - 1))
             IN  /\ ~lexed.ok /\ lexed.tokens = <<>>
                 /\ IF before.ok \/ before.msg = UnexpectedEndOfStream
                    THEN LexNames(input[i])
                    ELSE lexed.msg = before.msg /\ lexed.arg = before.arg

\* lex refused an x that follows two tokens
C4_Witness ==
    /\ LexReturned
    /\ Len(input) >= 3
    /\ FirstOutsideIsLast
    /\ LexNames("x")

(* ------------------------------- C7 ------------------------------------ *)

HasDoubleD == \E i \in 1..(Len(input) - 1) : input[i] = "d" /\ input[i + 1] = "d"

EndsWithD == Len(input) >= 1 /\ input[Len(input)] = "d"

\* C7 (as stated): an input of 1-9, +, -, d with a d directly before another
\* d or before the end of input is refused with the parser's error: the
\* double-d text for "dd", the end-of-input-after-d text for "d".
C7_DieSyntaxError ==
    (/\ ParseReturned
     /\ \A i \in 1..Len(input) : input[i] \in NonZeroDigits \cup {"+", "-", "d"}
     /\ HasDoubleD \/ EndsWithD)
    => /\ ~parsed.ok
       /\ parsed.msg \in {DieAfterDie, EndAfterDie}
       /\ input = <<"d">> => parsed.msg = EndAfterDie
       /\ input = <<"d", "d">> => parsed.msg = DieAfterDie

(* ------------------------------- C8 ------------------------------------ *)

LastTok == lexed.tokens[Len(lexed.tokens)]

EndsWithSign == lexed.ok /\ Len(lexed.tokens) >= 1 /\ LastTok.type \in {"Plus", "Minus"}

\* the text that names the trailing + or -
NamesLastTok == IF LastTok.type = "Minus" THEN EndAfterMinus ELSE EndAfterPlus

\* C8 (as stated): when the last token is + or -, in prefix or infix position,
\* parse fails with the text naming that operator.
C8_Original ==
    (/\ ParseReturned /\ EndsWithSign
     /\ \A i \in 1..Len(lexed.tokens) : Tok(i).type \in {"Integer", "Plus", "Minus", "Die"})
    => (~parsed.ok /\ parsed.msg = NamesLastTok)

\* the trailing sign follows an integer: it is read as an infix operator
TrailingInfix == Len(lexed.tokens) >= 2 /\ IsInt(lexed.tokens[Len(lexed.tokens) - 1])

\* C8 (amended): when the last token is + or -, parse fails and returns no
\* tree.  When the tokens are integers, +, - and d only, the text names the
\* trailing operator if it stands in prefix position (first token, or after
\* another operator), and is "Unexpected end of input" if it stands in infix
\* position (after an integer).
C8_TrailingSign ==
    (ParseReturned /\ EndsWithSign) =>
        /\ ~parsed.ok /\ parsed.tree = NoExpr
        /\ (\A i \in 1..Len(lexed.tokens) : Tok(i).type \in {"Integer", "Plus", "Minus", "Die"})
             => parsed.msg = IF TrailingInfix THEN UnexpectedEnd ELSE NamesLastTok

\* parse refused "1+-": the trailing - is in prefix position
C8_Witness ==
    /\ pc = "failed" /\ EndsWithSign
    /\ Types = <<"Integer", "Plus", "Minus">>
    /\ parsed.msg = EndAfterMinus

(* ------------------------------- C9 ------------------------------------ *)

\* C9: -XdY is Binary(Unary(X, Minus), Y, Die); -dX is Unary(Unary(X, Die), Minus);
\* AdB+CdD is Binary(Binary(A, B, Die), Binary(C, D, Die), Plus); +A--dB is
\* Binary(Unary(A, Plus), Unary(Unary(B, Die), Minus), Minus); and a prefix
\* sign takes the next primary only: sX op Y is Binary(Unary(X, s), Y, op).
C9_Grouping ==
    (ParseReturned /\ lexed.ok) =>
        /\ Types = <<"Minus", "Integer", "Die", "Integer">>
             => ParsedTo(binary_expr(unary_expr(Lit(Tok(2)), OpMinus), Lit(Tok(4)), OpDie))
        /\ Types = <<"Minus", "Die", "Integer">>
             => ParsedTo(unary_expr(unary_expr(Lit(Tok(3)), OpDie), OpMinus))
        /\ Types = <<"Integer", "Die", "Integer", "Plus", "Integer", "Die", "Integer">>
             => ParsedTo(binary_expr(binary_expr(Lit(Tok(1)), Lit(Tok(3)), OpDie),
                                     binary_expr(Lit(Tok(5)), Lit(Tok(7)), OpDie), OpPlus))
        /\ Types = <<"Plus", "Integer", "Minus", "Minus", "Die", "Integer">>
             => ParsedTo(binary_expr(unary_expr(Lit(Tok(2)), OpPlus),
                                     unary_expr(unary_expr(Lit(Tok(6)), OpDie), OpMinus),
                                     OpMinus))
        /\ (/\ Len(Types) = 4
            /\ Types[1] \in {"Plus", "Minus"} /\ Types[2] = "Integer"
            /\ Types[3] \in {"Plus", "Minus", "Die"} /\ Types[4] = "Integer")
             => ParsedTo(binary_expr(unary_expr(Lit(Tok(2)), OpOf(Tok(1))),
                                     Lit(Tok(4)), OpOf(Tok(3))))

\* AdB+CdD was parsed
C9_Witness ==
    /\ pc = "parsed"
    /\ Types = <<"Integer", "Die", "Integer", "Plus", "Integer", "Die", "Integer">>
    /\ parsed.tree.op = OpPlus /\ parsed.tree.lhs.op = OpDie /\ parsed.tree.rhs.op = OpDie

(* ------------------------------- C5 ------------------------------------ *)

RECURSIVE DiePaths(_, _)
\* the Die nodes of a tree, as paths from the root
DiePaths(ast, path) ==
    IF ast.kind = "NumericLiteral" THEN {}
    ELSE IF ast.kind = "Binary" THEN
        DiePaths(ast.lhs, Append(path, "lhs")) \cup DiePaths(ast.rhs, Append(path, "rhs"))
        \cup (IF ast.op = OpDie THEN {path} ELSE {})
    ELSE DiePaths(ast.rhs, Append(path, "rhs")) \cup (IF ast.op = OpDie THEN {path} ELSE {})

DieNodes == DiePaths(parsed.tree, <<>>)

\* C5: the random source is called once for each Die node of the tree, whatever
\* the dice count, so as many times as the tree has Die nodes; a tree without
\* Die nodes calls it never and has the same value under every source.
C5_OneDrawPerDieNode ==
    pc = "done" =>
        /\ Len(evald.log) = Cardinality(DieNodes)
        /\ evald.next = Cardinality(DieNodes)
        /\ \A p \in DieNodes : Cardinality({i \in 1..Len(evald.log) : evald.log[i] = p}) = 1
        /\ DieNodes = {} =>
             /\ evald.log = <<>>
             /\ \A src \in Sources : eval(src, parsed.tree, 0, <<>>).val = evald.val

\* a roll of two or more dice was evaluated with one call
C5_Witness ==
    /\ pc = "done"
    /\ parsed.tree.kind = "Binary" /\ parsed.tree.op = OpDie
    /\ parsed.tree.lhs.kind = "NumericLiteral" /\ parsed.tree.lhs.val >= 2
    /\ Len(evald.log) = 1

(* ------------------------------- C6 ------------------------------------ *)

Abs(x) == IF x >= 0 THEN x ELSE -x

\* the integer nearest to num/den, the one farther from zero at a tie
Nearest(num, den) ==
    LET q    == num \div den
        near == {n \in (q - 1)..(q + 2) : 2 * Abs(n * den - num) <= den}
    IN  CHOOSE n \in near : \A m \in near : Abs(m) <= Abs(n)

\* A * max(1, round(r * S))
Rolled(A, S, r) == LET n == Nearest(r[1] * S, r[2]) IN A * (IF n > 1 THEN n ELSE 1)

RECURSIVE Value(_, _)
\* the value the claim gives a tree when every draw is r
Value(ast, r) ==
    IF ast.kind = "NumericLiteral" THEN ast.val
    ELSE IF ast.kind = "Unary" THEN
        IF ast.op = OpDie THEN Rolled(1, Value(ast.rhs, r), r)
        ELSE IF ast.op = OpPlus THEN Value(ast.rhs, r)
        ELSE 0 - Value(ast.rhs, r)
    ELSE
        IF ast.op = OpDie THEN Rolled(Value(ast.lhs, r), Value(ast.rhs, r), r)
        ELSE IF ast.op = OpPlus THEN Value(ast.lhs, r) + Value(ast.rhs, r)
        ELSE Value(ast.lhs, r) - Value(ast.rhs, r)

\* the source returns r at every call
FixedAt(r) == \A i \in 1..Len(prng) : prng[i] = r

Half == <<1, 2>>
One == <<1, 1>>

\* C6: a Die node with dice count A and sides S under the draw r is
\* A * max(1, round(r * S)), a unary d has A = 1, and + and - add and subtract;
\* at 0.5 "2d20+1d8" is 24, at 1.0 "1d20+10" is 30, "3d6+10" 28, "1d20+2d3" 26.
C6_RollFormula ==
    pc = "done" =>
        /\ \A r \in PrngVals : FixedAt(r) => evald.val = Value(parsed.tree, r)
        /\ (/\ parsed.tree.kind = "Binary" /\ parsed.tree.op = OpDie
            /\ parsed.tree.lhs.kind = "NumericLiteral"
            /\ parsed.tree.rhs.kind = "NumericLiteral")
             => evald.val = Rolled(parsed.tree.lhs.val, parsed.tree.rhs.val, prng[1])
        /\ (/\ parsed.tree.kind = "Unary" /\ parsed.tree.op = OpDie
            /\ parsed.tree.rhs.kind = "NumericLiteral")
             => evald.val = Rolled(1, parsed.tree.rhs.val, prng[1])
        /\ (FixedAt(Half) /\ input = <<"2", "d", "2", "0", "+", "1", "d", "8">>)
             => evald.val = 24
        /\ (FixedAt(One) /\ input = <<"1", "d", "2", "0", "+", "1", "0">>)
             => evald.val = 30
        /\ (FixedAt(One) /\ input = <<"3", "d", "6", "+", "1", "0">>)
             => evald.val = 28
        /\ (FixedAt(One) /\ input = <<"1", "d", "2", "0", "+", "2", "d", "3">>)
             => evald.val = 26

\* "2d20+1d8" was evaluated to 24 with the source fixed at 0.5
C6_Witness ==
    /\ pc = "done"
    /\ input = <<"2", "d", "2", "0", "+", "1", "d", "8">>
    /\ FixedAt(Half)
    /\ evald.val = 24

(* ------------------------------- C10 ----------------------------------- *)

\* the node at p encloses the node at q
Encloses(p, q) == Len(p) < Len(q) /\ SubSeq(q, 1, Len(p)) = p

\* p is in the left operand and q in the right operand of one node
LeftOf(p, q) ==
    \E n \in 0..(Len(p) - 1) :
        /\ n < Len(q)
        /\ SubSeq(p, 1, n) = SubSeq(q, 1, n)
        /\ p[n + 1] = "lhs" /\ q[n + 1] = "rhs"

Calling == 1..Len(evald.log)

\* C10 (as stated): pre-order -- a Die node draws before the Die nodes in its
\* operands, and the left operand's draws come before the right operand's.
C10_Original ==
    pc = "done" =>
        \A i \in Calling : \A j \in Calling :
            /\ Encloses(evald.log[i], evald.log[j]) => i < j
            /\ LeftOf(evald.log[i], evald.log[j]) => i < j

\* C10 (amended): post-order -- a Die node draws after the Die nodes in its
\* operands, and the left operand's draws come before the right operand's.
C10_PostOrder ==
    pc = "done" =>
        \A i \in Calling : \A j \in Calling :
            /\ Encloses(evald.log[i], evald.log[j]) => j < i
            /\ LeftOf(evald.log[i], evald.log[j]) => i < j

\* a Die node drew after two Die nodes inside it, the left one first
C10_Witness ==
    /\ pc = "done"
    /\ \E i \in Calling : \E j \in Calling : \E k \in Calling :
          /\ i < j /\ j < k
          /\ LeftOf(evald.log[i], evald.log[j])
          /\ Encloses(evald.log[k], evald.log[i])
          /\ Encloses(evald.log[k], evald.log[j])

(* ------------------------------- C11 ----------------------------------- *)

RECURSIVE NodeCount(_)
\* the number of nodes of a tree
NodeCount(ast) ==
    IF ast.kind = "NumericLiteral" THEN 1
    ELSE IF ast.kind = "Unary" THEN 1 + NodeCount(ast.rhs)
    ELSE 1 + NodeCount(ast.lhs) + NodeCount(ast.rhs)

\* the cursor after the last token
EndOfTokens == Len(lexed.tokens) + 1

\* C11: when parse returns Ok(tree) the token cursor is at the end of the
\* tokens of lex(input), every token has become one node of the tree (none is
\* ignored), and, Ok or Err, the cursor never went past the end: the tokens
\* are passed over at most once.
C11_AllTokensConsumed ==
    (ParseReturned /\ lexed.ok) =>
        /\ parsed.pos >= 1 /\ parsed.pos <= EndOfTokens
        /\ parsed.ok =>
             /\ parsed.pos = EndOfTokens
             /\ NodeCount(parsed.tree) = Len(lexed.tokens)

\* a tree was returned for five or more tokens, prefix and infix ones among them
C11_Witness ==
    /\ pc = "parsed"
    /\ Len(lexed.tokens) >= 5
    /\ Tok(1).type \in {"Plus", "Minus", "Die"}
    /\ \E i \in 2..Len(lexed.tokens) : Tok(i).type = "Die"
    /\ \E i \in 2..Len(lexed.tokens) : Tok(i).type \in {"Plus", "Minus"}
    /\ parsed.pos = EndOfTokens

====
